---- MODULE Spec2Model ----
(***************************************************************************)
(* Response-orchestration client of the PR assistant.                      *)
(*                                                                         *)
(*   src/src/app/page.tsx                       Home: the controller and   *)
(*                                              the conversation store     *)
(*   src/src/server/routers/message.ts          the tRPC procedures        *)
(*   src/src/server/services/python-service.ts  fetchWithRetry and the     *)
(*                                              two service functions      *)
(*   src/src/components/{ChatContainer,ChatInput,PRInput}.tsx  the gates   *)
(*                                                                         *)
(* One chain is the sequence of calls one user action starts.  Every       *)
(* handler, procedure and await point of the source is one action.         *)
(***************************************************************************)
EXTENDS Integers, Sequences, FiniteSets, TLC

VARIABLES
    messages,        \* useState<Message[]>([])            page.tsx:11
    isAnalyzing,     \* useState(false)                    page.tsx:12
    isFirstRequest,  \* useState(true)                     page.tsx:13
    chains,          \* the call chains started so far, by order of start
    applied          \* a function of the program applied on its own to an
                     \* argument: [fn, arg, ret]

vars == <<messages, isAnalyzing, isFirstRequest, chains, applied>>

----------------------------------------------------------------------------
(* Bounds of the model *)

\* number of user actions (chains) in one session
MaxTurns == 2

\* cap on the fetch attempts of one fetchWithRetry call; the code's own limit
\* is MAX_RETRIES + 1, the cap only keeps a faulty variant finite
MaxAttempts == 4

----------------------------------------------------------------------------
(* Inputs *)

\* texts the chat input hands to handleSendMessage (trimmed, non-empty)
UserTexts == {"hello"}

WellFormedURL == "https://github.com/o/r/pull/1"
MalformedURL == "not a url"

\* texts the PR input hands to handlePRSubmit
PRUrls == {WellFormedURL, MalformedURL}

\* JSON bodies the backend answers with on a 2xx status
\* (sources: the Source titles; scores: overall, keyword, llm in percent;
\* <<>> where the field is absent)
Bodies ==
    { [content |-> "Hi there!", success |-> TRUE,
       sources |-> <<"docs/intro">>, scores |-> <<90, 80, 95>>],
      [content |-> "No matching documentation found.", success |-> FALSE,
       sources |-> <<>>, scores |-> <<>>],
      [content |-> "", success |-> FALSE, sources |-> <<>>, scores |-> <<>>] }

\* a 2xx body that response.json() cannot parse: json() rejects, its fields
\* are never read
NotJSON ==
    [content |-> "<!DOCTYPE html>", success |-> FALSE,
     sources |-> <<>>, scores |-> <<>>]

\* response.json() resolves
IsJSON(body) == body # NotJSON

\* body of a non-2xx answer: never read by the code
NoBody == [content |-> "", success |-> FALSE, sources |-> <<>>, scores |-> <<>>]

\* HTTP statuses the backend answers with
Statuses == {200, 404, 500, 502, 503, 504}

\* The outcome of attempt number n of a call: a Response or a thrown network
\* error.  n is the identity of the Response / Error object.
Outcomes(n) ==
    { [kind |-> "response", status |-> 200, body |-> b, n |-> n] : b \in Bodies }
    \cup
    { [kind |-> "response", status |-> s, body |-> NoBody, n |-> n] :
        s \in Statuses \ {200} }
    \cup
    { [kind |-> "error", status |-> 0, body |-> NoBody, n |-> n] }

NoOutcome == [kind |-> "none", status |-> 0, body |-> NoBody, n |-> 0]

\* a field the object does not have (undefined; JSON.stringify leaves it out)
Absent == "undefined"

\* PythonServiceRequest: the object the options' body is made of
NoRequest == [content |-> "", pr_url |-> Absent, previous_content |-> Absent]

----------------------------------------------------------------------------
(* python-service.ts: fetchWithRetry *)

MAX_RETRIES == 2

INITIAL_RETRY_DELAY == 8000

RECURSIVE Pow(_, _)
Pow(b, e) == IF e = 0 THEN 1 ELSE b * Pow(b, e - 1)

\* faulty variant: the delay doubles with every retry
RetryDelay_Doubling(retryCount) == INITIAL_RETRY_DELAY * Pow(2, retryCount)

\* INITIAL_RETRY_DELAY * Math.pow(1.5, retryCount), in ms
RetryDelay(retryCount) ==
    (INITIAL_RETRY_DELAY * Pow(3, retryCount)) \div Pow(2, retryCount)

\* response.ok
Ok(out) == out.kind = "response" /\ out.status \in 200..299

\* faulty variant: every 5xx status is retried
IsRetryableStatus_Any5xx(status) == status >= 500

\* the statuses line 35 does not return at once
IsRetryableStatus(status) == status \in {503, 504, 500}

\* faulty variant: `return await fetchWithRetry(...)`
InnerCallAwaited_Yes == TRUE

\* `return fetchWithRetry(...)` hands the inner promise back without awaiting
\* it, so a rejection of the inner call does not enter the caller's catch
InnerCallAwaited == FALSE

\* A fetchWithRetry call in progress.  frames: the retryCount of each
\* invocation whose promise is still pending, innermost last.
\* request: the body of `options`, the same object in every invocation
IdleFetch ==
    [phase |-> "idle", frames |-> <<>>, attempts |-> <<>>, delays |-> <<>>,
     result |-> NoOutcome, request |-> NoRequest]

\* fetchWithRetry(url, options): the first invocation, retryCount = 0
StartFetch ==
    [phase |-> "fetching", frames |-> <<0>>, attempts |-> <<>>, delays |-> <<>>,
     result |-> NoOutcome, request |-> NoRequest]

\* the invocation returns `out` or rethrows it: every pending frame returned
\* the promise of the next one, so the whole call settles with it
Surface(f, out) ==
    [f EXCEPT !.phase = "settled", !.frames = <<>>, !.result = out]

\* the invocation with retryCount rc waits before it calls itself again
Backoff(f, rc) ==
    [f EXCEPT !.phase = "sleeping", !.delays = Append(@, RetryDelay(rc))]

\* faulty variant: instead of rethrowing, a made-up 503 response is returned
Rethrow_Synthetic(f, out) ==
    Surface(f, [kind |-> "response", status |-> 503, body |-> NoBody, n |-> 0])

\* `throw error` of the innermost invocation (line 59)
Rethrow(f, out) ==
    IF InnerCallAwaited /\ Len(f.frames) > 1
    THEN \* the caller's catch block runs with the caller's retryCount
         LET outer == SubSeq(f.frames, 1, Len(f.frames) - 1)
         IN  Backoff([f EXCEPT !.frames = outer], outer[Len(outer)])
    ELSE Surface(f, out)

\* faulty variant: after a network error the wait is that of the next retry
AfterFetch_ErrorWaitsLonger(f, out) ==
    LET rc == f.frames[Len(f.frames)]
        g  == [f EXCEPT !.attempts = Append(@, out)]
    IN  IF out.kind = "response"
        THEN IF Ok(out) THEN Surface(g, out)
             ELSE IF rc >= MAX_RETRIES \/ ~IsRetryableStatus(out.status)
                  THEN Surface(g, out)
                  ELSE Backoff(g, rc)
        ELSE IF rc < MAX_RETRIES
             THEN Backoff(g, rc + 1)
             ELSE Rethrow(g, out)

\* faulty variant: the first invocation retries even after a 2xx response
AfterFetch_RetriesAfterSuccess(f, out) ==
    LET rc == f.frames[Len(f.frames)]
        g  == [f EXCEPT !.attempts = Append(@, out)]
    IN  IF out.kind = "response"
        THEN IF Ok(out) /\ rc > 0 THEN Surface(g, out)
             ELSE IF rc >= MAX_RETRIES
                     \/ (~Ok(out) /\ ~IsRetryableStatus(out.status))
                  THEN Surface(g, out)
                  ELSE Backoff(g, rc)
        ELSE IF rc < MAX_RETRIES
             THEN Backoff(g, rc)
             ELSE Rethrow(g, out)

\* `await fetch(url, options)` of the innermost invocation settles with out
AfterFetch(f, out) ==
    LET rc == f.frames[Len(f.frames)]
        g  == [f EXCEPT !.attempts = Append(@, out)]
    IN  IF out.kind = "response"
        THEN IF Ok(out) THEN Surface(g, out)
             ELSE IF rc >= MAX_RETRIES \/ ~IsRetryableStatus(out.status)
                  THEN Surface(g, out)
                  ELSE Backoff(g, rc)
        ELSE IF rc < MAX_RETRIES
             THEN Backoff(g, rc)
             ELSE Rethrow(g, out)

\* the setTimeout promise resolves: fetchWithRetry(url, options, retryCount + 1)
AfterDelay(f) ==
    [f EXCEPT !.phase = "fetching",
              !.frames = Append(@, f.frames[Len(f.frames)] + 1)]

----------------------------------------------------------------------------
(* python-service.ts: the service functions, from the settled fetchWithRetry
   call to the value they return.  A rejected call, a non-2xx response and a
   rejected response.json() all end in the catch block. *)

GENERATE_FAILED == "Failed to generate a response. Please try again later."
ANALYZE_FAILED == "Failed to analyze the PR. Please try again later."

\* faulty variant: the catch block carries the text of the other function
generateResponse_WrongText(result) ==
    IF Ok(result) /\ IsJSON(result.body) THEN result.body
    ELSE [content |-> ANALYZE_FAILED, success |-> FALSE,
          sources |-> <<>>, scores |-> <<>>]

generateResponse(result) ==
    IF Ok(result) /\ IsJSON(result.body) THEN result.body
    ELSE [content |-> GENERATE_FAILED, success |-> FALSE,
          sources |-> <<>>, scores |-> <<>>]

\* faulty variant: the `!response.ok` check is missing
analyzePR_NoStatusCheck(result) ==
    IF IsJSON(result.body) THEN result.body
    ELSE [content |-> ANALYZE_FAILED, success |-> FALSE,
          sources |-> <<>>, scores |-> <<>>]

analyzePR(result) ==
    IF Ok(result) /\ IsJSON(result.body) THEN result.body
    ELSE [content |-> ANALYZE_FAILED, success |-> FALSE,
          sources |-> <<>>, scores |-> <<>>]

----------------------------------------------------------------------------
(* routers/message.ts *)

\* faulty variant: the URL is not validated
IsValidURL_Any(prUrl) == TRUE

\* faulty variant: every URL is rejected
IsValidURL_None(prUrl) == FALSE

\* new URL(input.prUrl) does not throw
IsValidURL(prUrl) == prUrl = WellFormedURL

InvalidURLContent(prUrl) ==
    "Invalid GitHub URL: \"" \o prUrl \o
    "\". Please provide a valid GitHub pull request URL."

NoData == [content |-> "", success |-> FALSE]

\* the input schema of sendMessage: content z.string(), role
\* z.enum(['user', 'assistant'])
SendInputValid(input) == input.role \in {"user", "assistant"}

\* faulty variant: the role of the input is echoed
sendMessage_EchoesRole(input, uuid) ==
    IF SendInputValid(input)
    THEN [ok |-> TRUE, messageId |-> uuid, role |-> input.role,
          content |-> input.content]
    ELSE [ok |-> FALSE, messageId |-> 0, role |-> "none", content |-> ""]

\* messageRouter.sendMessage applied to an input: the record it returns, or
\* the rejection of the input by the schema (ok = FALSE).  uuid is what
\* crypto.randomUUID() yields in this call
sendMessage(input, uuid) ==
    IF SendInputValid(input)
    THEN [ok |-> TRUE, messageId |-> uuid, role |-> "user",
          content |-> input.content]
    ELSE [ok |-> FALSE, messageId |-> 0, role |-> "none", content |-> ""]

\* faulty variant: content and history change places
GenerateRequest_Swapped(input) ==
    [content |-> input.conversationHistory, pr_url |-> Absent,
     previous_content |-> input.previousContent]

\* the request messageRouter.generateResponse hands to the service
GenerateRequest(input) ==
    [content |-> input.previousContent, pr_url |-> Absent,
     previous_content |-> input.conversationHistory]

\* the request messageRouter.analyzePR hands to the service
AnalyzeRequest(input) ==
    [content |-> "", pr_url |-> input.prUrl, previous_content |-> Absent]

----------------------------------------------------------------------------
(* page.tsx: the conversation store and its messages *)

NoMetadata == "none"

\* The handlers build every Message from id, content, role and timestamp
\* (the placeholder also from prMetadata) and never set sources or scores.
\* chain is not a field of Message: it records which chain's handler created
\* the id of the message (crypto.randomUUID())
Message(role, content, prMetadata, chain) ==
    [role |-> role, content |-> content, prMetadata |-> prMetadata,
     sources |-> <<>>, scores |-> <<>>, chain |-> chain]

GENERATE_FALLBACK == "Failed to generate a response. Please try again."
GENERATE_ERROR ==
    "Failed to generate a response due to a server error. Please try again."
WARMING_UP ==
    "The backend service is warming up (this may take up to a minute on first use). Please try again shortly."
SEND_ERROR == "Failed to send message. Please try again."
ANALYZE_FALLBACK == "Failed to analyze the PR. Please try again."
ANALYZE_ERROR ==
    "Failed to analyze the PR due to a server error. Please try again."

\* faulty variant: the fallback text replaces the content
OrElse_Always(content, fallback) == fallback

\* data.content || fallback
OrElse(content, fallback) == IF content = "" THEN fallback ELSE content

HISTORY_WINDOW == 10

\* faulty variant: msgs.slice(0, 10)
Recent_Head(msgs) ==
    IF Len(msgs) <= HISTORY_WINDOW THEN msgs ELSE SubSeq(msgs, 1, HISTORY_WINDOW)

\* msgs.slice(-10)
Recent(msgs) ==
    IF Len(msgs) <= HISTORY_WINDOW THEN msgs
    ELSE SubSeq(msgs, Len(msgs) - HISTORY_WINDOW + 1, Len(msgs))

Render(msg) ==
    (IF msg.role = "user" THEN "User" ELSE "Assistant") \o ": " \o msg.content

RECURSIVE Join(_, _)
Join(texts, sep) ==
    IF Len(texts) = 0 THEN ""
    ELSE IF Len(texts) = 1 THEN texts[1]
    ELSE texts[1] \o sep \o Join(Tail(texts), sep)

getConversationHistory(msgs) ==
    Join([i \in 1..Len(Recent(msgs)) |-> Render(Recent(msgs)[i])], "\n\n")

----------------------------------------------------------------------------
(* The chains.  stage:
     sendPending   sendMessage mutation sent, not yet handled by the server
     sendReplied   the sendMessage procedure returned, reply on its way
     rpcPending    generateResponse / analyzePR mutation sent
     serving       the procedure runs: fetchWithRetry in progress
     rpcReplied    the procedure returned, reply on its way
     done          the terminal handler ran                                  *)

\* what is remembered of a chain's fetchWithRetry call once its service
\* function has consumed it: whether every attempt of it threw
NoCall == "none"

CallSummary(f) ==
    IF \A i \in 1..Len(f.attempts) : f.attempts[i].kind = "error"
    THEN "allThrew" ELSE "answered"

\* rpcs: the procedures the chain's mutate(...) calls have invoked, in order
NewChain(kind, input, stage) ==
    [kind |-> kind, input |-> input, stage |-> stage, data |-> NoData,
     history |-> "", fetch |-> IdleFetch, call |-> NoCall, handled |-> "none",
     rpcs |-> IF kind = "chat" THEN <<"sendMessage">> ELSE <<"analyzePR">>]

Chains == DOMAIN chains

InFlight == { c \in Chains : chains[c].stage # "done" }

\* faulty variant: the chat input stays enabled during a chain
ChatInputDisabled_Never == FALSE

\* <ChatInput disabled={isAnalyzing}>   ChatContainer.tsx:54
ChatInputDisabled == isAnalyzing

\* <PRInput disabled={isAnalyzing}>     page.tsx:200
PRInputDisabled == isAnalyzing

\* the module-level bindings of routers/message.ts and
\* services/python-service.ts, the only state the server keeps between two
\* calls: both are const
ServerModule ==
    [MAX_RETRIES |-> MAX_RETRIES, INITIAL_RETRY_DELAY |-> INITIAL_RETRY_DELAY]

\* no function has been applied on its own.
\*   calls    how many times fn was called with arg
\*   ret      what the latest call returned
\*   ids      the messageIds the calls generated, in order
\*   sent     the requests the calls sent to the backend, in order
\*   backend  the outcome fetchWithRetry settled with in the latest call
\*   service  what the service function returned in the latest call
\*   module   the server's module-level bindings after the latest call
NotApplied ==
    [fn |-> "none", arg |-> <<>>, ret |-> <<>>, calls |-> 0, ids |-> <<>>,
     sent |-> <<>>, backend |-> NoOutcome, service |-> NoBody,
     module |-> ServerModule]

Init ==
    /\ messages = <<>>
    /\ isAnalyzing = FALSE
    /\ isFirstRequest = TRUE
    /\ chains = <<>>
    /\ applied = NotApplied

(* ---- user actions ---- *)

handleSendMessage(content) ==
    /\ ~ChatInputDisabled
    /\ Len(chains) < MaxTurns
    /\ messages' = Append(messages,
                          Message("user", content, NoMetadata, Len(chains) + 1))
    /\ isAnalyzing' = TRUE
    /\ chains' = Append(chains, NewChain("chat", content, "sendPending"))
    /\ UNCHANGED isFirstRequest
    /\ UNCHANGED applied

(* ChatInput.tsx: the text field and its form *)

\* white space as String.prototype.trim() sees it
Whitespace == {" ", "\t", "\n"}

\* what the user has typed into the field when the form is submitted, as the
\* sequence of its characters
RawInputs ==
    { <<>>,
      <<" ">>,
      <<" ", "\t", " ">>,
      <<"h", "e", "l", "l", "o">>,
      <<" ", "h", "e", "l", "l", "o">>,
      <<"h", "e", "l", "l", "o", "\n">>,
      <<" ", " ", "h", "e", "l", "l", "o", " ">> }

RECURSIVE TrimStart(_)
TrimStart(chars) ==
    IF chars # <<>> /\ Head(chars) \in Whitespace
    THEN TrimStart(Tail(chars)) ELSE chars

RECURSIVE TrimEnd(_)
TrimEnd(chars) ==
    IF chars # <<>> /\ chars[Len(chars)] \in Whitespace
    THEN TrimEnd(SubSeq(chars, 1, Len(chars) - 1)) ELSE chars

\* input.trim()
Trim(chars) == TrimEnd(TrimStart(chars))

\* the string made of the characters
RECURSIVE Text(_)
Text(chars) == IF chars = <<>> THEN "" ELSE Head(chars) \o Text(Tail(chars))

\* faulty variant: the `if (!input.trim()) return` line is missing
handleSubmit_NoCheck(raw) ==
    handleSendMessage(Text(Trim(raw)))

\* ChatInput.handleSubmit with `raw` in the field: returns at once on a blank
\* text, else onSendMessage(input.trim())
handleSubmit(raw) ==
    /\ Text(Trim(raw)) # ""
    /\ handleSendMessage(Text(Trim(raw)))

\* faulty variant: no "Analyzing PR" placeholder is appended
handlePRSubmit_NoPlaceholder(url) ==
    /\ ~PRInputDisabled
    /\ Len(chains) < MaxTurns
    /\ isAnalyzing' = TRUE
    /\ chains' = Append(chains, NewChain("pr", url, "rpcPending"))
    /\ UNCHANGED <<messages, isFirstRequest>>
    /\ UNCHANGED applied

\* faulty variant: setMessages([initialMessage]) replaces the list
handlePRSubmit_Replaces(url) ==
    /\ ~PRInputDisabled
    /\ Len(chains) < MaxTurns
    /\ messages' = << Message("assistant", "Analyzing PR: " \o url, url,
                              Len(chains) + 1) >>
    /\ isAnalyzing' = TRUE
    /\ chains' = Append(chains, NewChain("pr", url, "rpcPending"))
    /\ UNCHANGED isFirstRequest
    /\ UNCHANGED applied

handlePRSubmit(url) ==
    /\ ~PRInputDisabled
    /\ Len(chains) < MaxTurns
    /\ messages' = Append(messages,
                          Message("assistant", "Analyzing PR: " \o url, url,
                                  Len(chains) + 1))
    /\ isAnalyzing' = TRUE
    /\ chains' = Append(chains, NewChain("pr", url, "rpcPending"))
    /\ UNCHANGED isFirstRequest
    /\ UNCHANGED applied

(* ---- the server: procedures and the gateway ---- *)

\* messageRouter.sendMessage on the input of handleSendMessage: echoes the
\* content, no backend call
SendMessageProcedure(c) ==
    /\ chains[c].stage = "sendPending"
    /\ LET r == sendMessage([content |-> chains[c].input, role |-> "user"], c)
       IN  chains' = [chains EXCEPT ![c].stage = "sendReplied",
                                    ![c].data = [content |-> r.content,
                                                 success |-> r.ok]]
    /\ UNCHANGED <<messages, isAnalyzing, isFirstRequest>>
    /\ UNCHANGED applied

\* messageRouter.generateResponse begins on the input of
\* generateResponseMutation.mutate (messageId and content of the sendMessage
\* reply, the history): the service calls fetchWithRetry
GenerateResponseProcedure(c) ==
    /\ chains[c].kind = "chat"
    /\ chains[c].stage = "rpcPending"
    /\ LET input == [messageId |-> c,
                     previousContent |-> chains[c].data.content,
                     conversationHistory |-> chains[c].history]
       IN  chains' = [chains EXCEPT
                         ![c].stage = "serving",
                         ![c].fetch = [StartFetch EXCEPT
                                          !.request = GenerateRequest(input)]]
    /\ UNCHANGED <<messages, isAnalyzing, isFirstRequest>>
    /\ UNCHANGED applied

\* messageRouter.analyzePR begins: new URL(...) throws into the catch block,
\* or the service calls fetchWithRetry
AnalyzePRProcedure(c) ==
    /\ chains[c].kind = "pr"
    /\ chains[c].stage = "rpcPending"
    /\ chains' =
         IF IsValidURL(chains[c].input)
         THEN [chains EXCEPT
                  ![c].stage = "serving",
                  ![c].fetch = [StartFetch EXCEPT
                                   !.request =
                                      AnalyzeRequest([prUrl |-> chains[c].input])]]
         ELSE [chains EXCEPT ![c].stage = "rpcReplied",
                             ![c].data = [content |-> InvalidURLContent(chains[c].input),
                                          success |-> FALSE]]
    /\ UNCHANGED <<messages, isAnalyzing, isFirstRequest>>
    /\ UNCHANGED applied

\* one fetch attempt settles
FetchSettles(c, out) ==
    /\ chains[c].stage = "serving"
    /\ chains[c].fetch.phase = "fetching"
    /\ Len(chains[c].fetch.attempts) < MaxAttempts
    /\ out \in Outcomes(Len(chains[c].fetch.attempts) + 1)
    /\ chains' = [chains EXCEPT ![c].fetch = AfterFetch(@, out)]
    /\ UNCHANGED <<messages, isAnalyzing, isFirstRequest>>
    /\ UNCHANGED applied

\* the wait before a retry ends
DelayElapses(c) ==
    /\ chains[c].stage = "serving"
    /\ chains[c].fetch.phase = "sleeping"
    /\ chains' = [chains EXCEPT ![c].fetch = AfterDelay(@)]
    /\ UNCHANGED <<messages, isAnalyzing, isFirstRequest>>
    /\ UNCHANGED applied

\* the service function resumes after `await fetchWithRetry(...)` and the
\* procedure returns {content, success, timestamp}
ProcedureReturns(c) ==
    /\ chains[c].stage = "serving"
    /\ chains[c].fetch.phase = "settled"
    /\ LET f == chains[c].fetch
           r == IF chains[c].kind = "chat" THEN generateResponse(f.result)
                ELSE analyzePR(f.result)
       IN  /\ chains' = [chains EXCEPT ![c].stage = "rpcReplied",
                                       ![c].data = [content |-> r.content,
                                                    success |-> r.success],
                                       ![c].fetch = IdleFetch,
                                       ![c].call = CallSummary(f)]
    /\ UNCHANGED <<messages, isAnalyzing, isFirstRequest>>
    /\ UNCHANGED applied

(* ---- the controller: the mutation callbacks ---- *)

\* faulty variant: generateResponseMutation.mutate(...) is called twice
SendOnSuccess_MutatesTwice(c) ==
    /\ chains[c].stage = "sendReplied"
    /\ chains[c].data.success
    /\ chains' = [chains EXCEPT ![c].stage = "rpcPending",
                                ![c].history = getConversationHistory(messages),
                                ![c].rpcs = @ \o <<"generateResponse",
                                                   "generateResponse">>]
    /\ UNCHANGED <<messages, isAnalyzing, isFirstRequest>>
    /\ UNCHANGED applied

\* sendMessageMutation.onSuccess: history over the rendered messages, then
\* generateResponseMutation.mutate(...)
SendOnSuccess(c) ==
    /\ chains[c].stage = "sendReplied"
    /\ chains[c].data.success
    /\ chains' = [chains EXCEPT ![c].stage = "rpcPending",
                                ![c].history = getConversationHistory(messages),
                                ![c].rpcs = Append(@, "generateResponse")]
    /\ UNCHANGED <<messages, isAnalyzing, isFirstRequest>>
    /\ UNCHANGED applied

\* faulty variant: the handler forgets setIsAnalyzing(false)
SendOnError_NoClear(c) ==
    /\ chains[c].stage \in {"sendPending", "sendReplied"}
    /\ messages' = Append(messages, Message("assistant", SEND_ERROR, NoMetadata, c))
    /\ chains' = [chains EXCEPT ![c].stage = "done", ![c].handled = "onError",
                                ![c].data = NoData]
    /\ UNCHANGED <<isAnalyzing, isFirstRequest>>
    /\ UNCHANGED applied

\* faulty variant: the handler appends the text of another handler
SendOnError_WrongText(c) ==
    /\ chains[c].stage \in {"sendPending", "sendReplied"}
    /\ messages' = Append(messages,
                          Message("assistant", GENERATE_FALLBACK, NoMetadata, c))
    /\ isAnalyzing' = FALSE
    /\ chains' = [chains EXCEPT ![c].stage = "done", ![c].handled = "onError",
                                ![c].data = NoData]
    /\ UNCHANGED isFirstRequest
    /\ UNCHANGED applied

\* sendMessageMutation.onError: the call to the app server failed
SendOnError(c) ==
    /\ chains[c].stage \in {"sendPending", "sendReplied"}
    /\ messages' = Append(messages, Message("assistant", SEND_ERROR, NoMetadata, c))
    /\ isAnalyzing' = FALSE
    /\ chains' = [chains EXCEPT ![c].stage = "done", ![c].handled = "onError",
                                ![c].data = NoData]
    /\ UNCHANGED isFirstRequest
    /\ UNCHANGED applied

\* faulty variant: a success=false answer is dropped without a message
GenOnSuccess_Silent(c) ==
    /\ chains[c].kind = "chat"
    /\ chains[c].stage = "rpcReplied"
    /\ LET data == chains[c].data
       IN  IF data.success
           THEN /\ messages' = Append(messages,
                      Message("assistant", data.content, NoMetadata, c))
                /\ isFirstRequest' = FALSE
           ELSE UNCHANGED <<messages, isFirstRequest>>
    /\ isAnalyzing' = FALSE
    /\ chains' = [chains EXCEPT ![c].stage = "done", ![c].handled = "onSuccess"]
    /\ UNCHANGED applied

\* faulty variant: setMessages(prev => [assistantMessage, ...prev])
GenOnSuccess_Prepends(c) ==
    /\ chains[c].kind = "chat"
    /\ chains[c].stage = "rpcReplied"
    /\ LET data == chains[c].data
       IN  IF data.success
           THEN /\ messages' =
                      <<Message("assistant", data.content, NoMetadata, c)>>
                         \o messages
                /\ isFirstRequest' = FALSE
           ELSE /\ messages' = Append(messages,
                      Message("assistant", OrElse(data.content, GENERATE_FALLBACK),
                              NoMetadata, c))
                /\ UNCHANGED isFirstRequest
    /\ isAnalyzing' = FALSE
    /\ chains' = [chains EXCEPT ![c].stage = "done", ![c].handled = "onSuccess"]
    /\ UNCHANGED applied

\* faulty variant: setIsFirstRequest(false) also on a success=false answer
GenOnSuccess_ClearsOnFailure(c) ==
    /\ chains[c].kind = "chat"
    /\ chains[c].stage = "rpcReplied"
    /\ LET data == chains[c].data
       IN  IF data.success
           THEN messages' = Append(messages,
                      Message("assistant", data.content, NoMetadata, c))
           ELSE messages' = Append(messages,
                      Message("assistant", OrElse(data.content, GENERATE_FALLBACK),
                              NoMetadata, c))
    /\ isFirstRequest' = FALSE
    /\ isAnalyzing' = FALSE
    /\ chains' = [chains EXCEPT ![c].stage = "done", ![c].handled = "onSuccess"]
    /\ UNCHANGED applied

\* generateResponseMutation.onSuccess
GenOnSuccess(c) ==
    /\ chains[c].kind = "chat"
    /\ chains[c].stage = "rpcReplied"
    /\ LET data == chains[c].data
       IN  IF data.success
           THEN /\ messages' = Append(messages,
                      Message("assistant", data.content, NoMetadata, c))
                /\ isFirstRequest' = FALSE
           ELSE /\ messages' = Append(messages,
                      Message("assistant", OrElse(data.content, GENERATE_FALLBACK),
                              NoMetadata, c))
                /\ UNCHANGED isFirstRequest
    /\ isAnalyzing' = FALSE
    /\ chains' = [chains EXCEPT ![c].stage = "done", ![c].handled = "onSuccess"]
    /\ UNCHANGED applied

\* faulty variant: the handler forgets setIsAnalyzing(false)
GenOnError_NoClear(c) ==
    /\ chains[c].kind = "chat"
    /\ chains[c].stage \in {"rpcPending", "serving", "rpcReplied"}
    /\ messages' = Append(messages,
           Message("assistant",
                   IF isFirstRequest THEN WARMING_UP ELSE GENERATE_ERROR,
                   NoMetadata, c))
    /\ chains' = [chains EXCEPT ![c].stage = "done", ![c].handled = "onError",
                                ![c].fetch = IdleFetch, ![c].data = NoData]
    /\ UNCHANGED <<isAnalyzing, isFirstRequest>>
    /\ UNCHANGED applied

\* faulty variant: the handler ignores isFirstRequest
GenOnError_AlwaysServerError(c) ==
    /\ chains[c].kind = "chat"
    /\ chains[c].stage \in {"rpcPending", "serving", "rpcReplied"}
    /\ messages' = Append(messages,
                          Message("assistant", GENERATE_ERROR, NoMetadata, c))
    /\ isAnalyzing' = FALSE
    /\ chains' = [chains EXCEPT ![c].stage = "done", ![c].handled = "onError",
                                ![c].fetch = IdleFetch, ![c].data = NoData]
    /\ UNCHANGED isFirstRequest
    /\ UNCHANGED applied

\* generateResponseMutation.onError: the call to the app server failed; no
\* data reached the controller and what the server still does for the call
\* no longer reaches the store
GenOnError(c) ==
    /\ chains[c].kind = "chat"
    /\ chains[c].stage \in {"rpcPending", "serving", "rpcReplied"}
    /\ messages' = Append(messages,
           Message("assistant",
                   IF isFirstRequest THEN WARMING_UP ELSE GENERATE_ERROR,
                   NoMetadata, c))
    /\ isAnalyzing' = FALSE
    /\ chains' = [chains EXCEPT ![c].stage = "done", ![c].handled = "onError",
                                ![c].fetch = IdleFetch, ![c].data = NoData]
    /\ UNCHANGED isFirstRequest
    /\ UNCHANGED applied

\* faulty variant: the terminal message replaces the placeholder
PROnSuccess_ReplacesPlaceholder(c) ==
    /\ chains[c].kind = "pr"
    /\ chains[c].stage = "rpcReplied"
    /\ LET data == chains[c].data
           text == IF data.success THEN data.content
                   ELSE OrElse(data.content, ANALYZE_FALLBACK)
       IN  /\ messages' = [messages EXCEPT ![Len(messages)] =
                              Message("assistant", text, NoMetadata, c)]
           /\ isFirstRequest' = (isFirstRequest /\ ~data.success)
    /\ isAnalyzing' = FALSE
    /\ chains' = [chains EXCEPT ![c].stage = "done", ![c].handled = "onSuccess"]
    /\ UNCHANGED applied

\* analyzePRMutation.onSuccess
PROnSuccess(c) ==
    /\ chains[c].kind = "pr"
    /\ chains[c].stage = "rpcReplied"
    /\ LET data == chains[c].data
       IN  IF data.success
           THEN /\ messages' = Append(messages,
                      Message("assistant", data.content, NoMetadata, c))
                /\ isFirstRequest' = FALSE
           ELSE /\ messages' = Append(messages,
                      Message("assistant", OrElse(data.content, ANALYZE_FALLBACK),
                              NoMetadata, c))
                /\ UNCHANGED isFirstRequest
    /\ isAnalyzing' = FALSE
    /\ chains' = [chains EXCEPT ![c].stage = "done", ![c].handled = "onSuccess"]
    /\ UNCHANGED applied

\* analyzePRMutation.onError
PROnError(c) ==
    /\ chains[c].kind = "pr"
    /\ chains[c].stage \in {"rpcPending", "serving", "rpcReplied"}
    /\ messages' = Append(messages,
           Message("assistant",
                   IF isFirstRequest THEN WARMING_UP ELSE ANALYZE_ERROR,
                   NoMetadata, c))
    /\ isAnalyzing' = FALSE
    /\ chains' = [chains EXCEPT ![c].stage = "done", ![c].handled = "onError",
                                ![c].fetch = IdleFetch, ![c].data = NoData]
    /\ UNCHANGED isFirstRequest
    /\ UNCHANGED applied

----------------------------------------------------------------------------

\* what the event loop does for a chain in flight
Step(c) ==
    \/ SendMessageProcedure(c)
    \/ SendOnSuccess(c)
    \/ SendOnError(c)
    \/ GenerateResponseProcedure(c)
    \/ AnalyzePRProcedure(c)
    \/ \E out \in Outcomes(Len(chains[c].fetch.attempts) + 1) : FetchSettles(c, out)
    \/ DelayElapses(c)
    \/ ProcedureReturns(c)
    \/ GenOnSuccess(c)
    \/ GenOnError(c)
    \/ PROnSuccess(c)
    \/ PROnError(c)

Next ==
    \/ \E raw \in RawInputs : handleSubmit(raw)
    \/ \E url \in PRUrls : handlePRSubmit(url)
    \/ \E c \in Chains : SendMessageProcedure(c)
    \/ \E c \in Chains : SendOnSuccess(c)
    \/ \E c \in Chains : SendOnError(c)
    \/ \E c \in Chains : GenerateResponseProcedure(c)
    \/ \E c \in Chains : AnalyzePRProcedure(c)
    \/ \E c \in Chains :
          \E out \in Outcomes(Len(chains[c].fetch.attempts) + 1) : FetchSettles(c, out)
    \/ \E c \in Chains : DelayElapses(c)
    \/ \E c \in Chains : ProcedureReturns(c)
    \/ \E c \in Chains : GenOnSuccess(c)
    \/ \E c \in Chains : GenOnError(c)
    \/ \E c \in Chains : PROnSuccess(c)
    \/ \E c \in Chains : PROnError(c)

Spec == Init /\ [][Next]_vars

----------------------------------------------------------------------------
(* The functions of the program applied on their own, one function and one
   argument per behaviour: getConversationHistory to a message list built
   message by message, each procedure of messageRouter to one input, called
   once and then again. *)

\* longest message list handed to getConversationHistory
MaxMessages == 15

\* how many times a procedure is called with the same input
MaxCalls == 2

Roles == {"user", "assistant"}

\* inputs a caller can send to the sendMessage procedure
SendInputs == [content : {"", "hello"}, role : {"user", "assistant", "system"}]

\* inputs of the generateResponse procedure (conversationHistory is optional)
GenerateInputs ==
    [messageId : {1}, previousContent : {"hello"},
     conversationHistory : {Absent, "", "User: hi\n\nAssistant: Hi there!"}]

\* inputs of the analyzePR procedure
AnalyzeInputs == [prUrl : PRUrls]

\* what a fetchWithRetry call can settle with: the outcome of its last
\* attempt, here also a 2xx answer whose body is not JSON
FinalOutcomes ==
    Outcomes(1) \cup
    { [kind |-> "response", status |-> 200, body |-> NotJSON, n |-> 1] }

\* getConversationHistory(<<>>)
AssembleEmpty ==
    /\ applied.fn = "none"
    /\ applied' = [NotApplied EXCEPT !.fn = "getConversationHistory",
                                     !.calls = 1,
                                     !.ret = getConversationHistory(<<>>)]
    /\ UNCHANGED <<messages, isAnalyzing, isFirstRequest, chains>>

\* one more message, with a content of its own, then
\* getConversationHistory(msgs)
Assemble(role) ==
    /\ applied.fn = "getConversationHistory"
    /\ Len(applied.arg) < MaxMessages
    /\ LET msgs == Append(applied.arg,
                          Message(role, "m" \o ToString(Len(applied.arg) + 1),
                                  NoMetadata, 0))
       IN  applied' = [applied EXCEPT !.arg = msgs,
                                      !.ret = getConversationHistory(msgs)]
    /\ UNCHANGED <<messages, isAnalyzing, isFirstRequest, chains>>

\* what the procedures return: {content, success, timestamp}
Reply(r) == [content |-> r.content, success |-> r.success]

\* faulty variant: the procedures count their calls in a module-level binding
Invoke_CountsCalls(a, fn, input, out) ==
    [a EXCEPT !.fn = fn, !.arg = input, !.calls = @ + 1,
              !.ret = [content |-> "", success |-> FALSE],
              !.module = [MAX_RETRIES |-> MAX_RETRIES + a.calls,
                          INITIAL_RETRY_DELAY |-> INITIAL_RETRY_DELAY]]

\* One call of procedure fn of messageRouter with input, after the calls
\* recorded in a; out is what fetchWithRetry settles with if it is called.
\* No procedure assigns a module-level binding.
Invoke(a, fn, input, out) ==
    LET b == [a EXCEPT !.fn = fn, !.arg = input, !.calls = @ + 1]
    IN  CASE fn = "sendMessage" ->
               LET r == sendMessage(input, a.calls + 1)
               IN  [b EXCEPT !.ret = r,
                             !.ids = IF r.ok THEN Append(@, r.messageId) ELSE @]
          [] fn = "generateResponse" ->
               LET r == generateResponse(out)
               IN  [b EXCEPT !.sent = Append(@, GenerateRequest(input)),
                             !.backend = out, !.service = r, !.ret = Reply(r)]
          [] fn = "analyzePR" ->
               IF IsValidURL(input.prUrl)
               THEN LET r == analyzePR(out)
                    IN  [b EXCEPT !.sent = Append(@, AnalyzeRequest(input)),
                                  !.backend = out, !.service = r,
                                  !.ret = Reply(r)]
               ELSE [b EXCEPT !.backend = NoOutcome, !.service = NoBody,
                              !.ret = [content |-> InvalidURLContent(input.prUrl),
                                       success |-> FALSE]]

ApplySendMessage(input) ==
    /\ applied.fn = "none"
    /\ applied' = Invoke(applied, "sendMessage", input, NoOutcome)
    /\ UNCHANGED <<messages, isAnalyzing, isFirstRequest, chains>>

ApplyGenerateResponse(input, out) ==
    /\ applied.fn = "none"
    /\ applied' = Invoke(applied, "generateResponse", input, out)
    /\ UNCHANGED <<messages, isAnalyzing, isFirstRequest, chains>>

ApplyAnalyzePR(input, out) ==
    /\ applied.fn = "none"
    /\ applied' = Invoke(applied, "analyzePR", input, out)
    /\ UNCHANGED <<messages, isAnalyzing, isFirstRequest, chains>>

\* the same procedure is called again with the same input
ApplyAgain(out) ==
    /\ applied.fn \in {"sendMessage", "generateResponse", "analyzePR"}
    /\ applied.calls < MaxCalls
    /\ applied' = Invoke(applied, applied.fn, applied.arg, out)
    /\ UNCHANGED <<messages, isAnalyzing, isFirstRequest, chains>>

PureNext ==
    \/ AssembleEmpty
    \/ \E role \in Roles : Assemble(role)
    \/ \E input \in SendInputs : ApplySendMessage(input)
    \/ \E input \in GenerateInputs, out \in FinalOutcomes :
          ApplyGenerateResponse(input, out)
    \/ \E input \in AnalyzeInputs, out \in FinalOutcomes :
          ApplyAnalyzePR(input, out)
    \/ \E out \in FinalOutcomes : ApplyAgain(out)

PureSpec == Init /\ [][PureNext]_vars

\* While a callback, timer or request of a chain is pending, the event loop
\* eventually runs or settles one.
FairSpec == Spec /\ WF_vars(\E c \in Chains : Step(c))

----------------------------------------------------------------------------
(* Properties *)

\* the assistant-role messages the handlers of chain c appended
AssistantOf(c) ==
    { i \in 1..Len(messages) :
        messages[i].chain = c /\ messages[i].role = "assistant" }

\* the terminal messages of chain c: its assistant messages other than the
\* "Analyzing PR" placeholder, which alone carries prMetadata
TerminalOf(c) ==
    { i \in AssistantOf(c) : messages[i].prMetadata = NoMetadata }

\* chain c was started and its terminal message is not yet appended
Outstanding(c) == c \in Chains /\ TerminalOf(c) = {}

\* C1: in every reachable state isAnalyzing is true exactly when a chain
\* started by handleSendMessage or handlePRSubmit is outstanding (started,
\* terminal message not yet appended); it is false initially and otherwise.
C1_FlagIffOutstanding ==
    isAnalyzing <=> (\E c \in Chains : Outstanding(c))

\* C1 witness: a second chain is outstanding after the first ended in an error
C1_Witness ==
    /\ Len(chains) = 2
    /\ chains[1].handled = "onError"
    /\ ~Outstanding(1)
    /\ Outstanding(2)
    /\ isAnalyzing

C3_OneChainInFlight ==
    /\ Cardinality(InFlight) <= 1
    /\ \A i, j \in 1..Len(messages) :
          i < j => messages[i].chain <= messages[j].chain

\* C3 witness: the second chain runs, with the inputs disabled, after the
\* first has ended
C3_Witness ==
    /\ Len(chains) = 2
    /\ chains[1].stage = "done"
    /\ chains[2].stage = "serving"
    /\ ChatInputDisabled /\ PRInputDisabled

\* C4: a handleSendMessage chain never holds two assistant messages, and
\* holds exactly one once it has ended.
C4_OneAssistantPerTurn ==
    \A c \in Chains :
        chains[c].kind = "chat" =>
            /\ Cardinality(AssistantOf(c)) <= 1
            /\ chains[c].stage = "done" => Cardinality(AssistantOf(c)) = 1

\* C4 witness: two chat turns have ended, one by an error handler and one by
\* a success handler
C4_Witness ==
    /\ Len(chains) = 2
    /\ \A c \in Chains : chains[c].kind = "chat" /\ chains[c].stage = "done"
    /\ chains[1].handled = "onError"
    /\ chains[2].handled = "onSuccess"
    /\ Len(messages) = 4

\* C5 as stated: every ended chain, a PR submission included, added exactly
\* one assistant-role message.
C5_OneAssistantPerAction ==
    \A c \in Chains :
        chains[c].stage = "done" => Cardinality(AssistantOf(c)) = 1

\* C5 amended: every ended chain added exactly one terminal assistant message;
\* a chat turn added no other assistant message, a PR submission added one
\* more, the "Analyzing PR" placeholder.
C5_OneTerminalPerAction ==
    \A c \in Chains :
        chains[c].stage = "done" =>
            /\ Cardinality(TerminalOf(c)) = 1
            /\ Cardinality(AssistantOf(c)) =
                   IF chains[c].kind = "pr" THEN 2 ELSE 1

\* C5 witness: a PR submission has ended with its placeholder and its
\* terminal message
C5_Witness ==
    \E c \in Chains :
        /\ chains[c].kind = "pr"
        /\ chains[c].stage = "done"
        /\ ~isAnalyzing
        /\ Cardinality(AssistantOf(c)) = 2

\* the fetchWithRetry calls in progress or settled and not yet consumed
Calls == { c \in Chains : chains[c].fetch.phase # "idle" }

Is503(out) == out.kind = "response" /\ out.status = 503

All503(f) == \A i \in 1..Len(f.attempts) : Is503(f.attempts[i])

\* s is an initial part of t
IsPrefix(s, t) == Len(s) <= Len(t) /\ \A i \in 1..Len(s) : s[i] = t[i]

\* C6: a fetchWithRetry call whose every attempt receives HTTP 503 makes
\* exactly 3 attempts, waits 8000 ms before the second and 12000 ms before the
\* third, and returns the third 503 response itself.
C6_All503ThreeAttempts ==
    \A c \in Calls :
        LET f == chains[c].fetch
        IN  All503(f) =>
              /\ IsPrefix(f.delays, <<8000, 12000>>)
              /\ f.phase = "fetching" => Len(f.delays) = Len(f.attempts)
              /\ f.phase = "settled" =>
                    /\ Len(f.attempts) = 3
                    /\ f.delays = <<8000, 12000>>
                    /\ f.result = f.attempts[3]
                    /\ Is503(f.result)

\* C6 witness: a call has settled after three 503 answers
C6_Witness ==
    \E c \in Calls :
        /\ chains[c].fetch.phase = "settled"
        /\ Len(chains[c].fetch.attempts) = 3
        /\ All503(chains[c].fetch)

\* C7: an attempt is followed by a wait or a further attempt only if it threw
\* a network error or answered 500, 503 or 504; a call whose first attempt
\* answers 404 (or 502) has settled with that answer after 1 attempt and no
\* wait.
C7_RetryOnlyTransient ==
    \A c \in Calls :
        LET f == chains[c].fetch
        IN  /\ \A i \in 1..Len(f.attempts) :
                  (i < Len(f.attempts) \/ f.phase = "sleeping") =>
                      \/ f.attempts[i].kind = "error"
                      \/ f.attempts[i].status \in {500, 503, 504}
            /\ (Len(f.attempts) >= 1 /\ f.attempts[1].status \in {404, 502}) =>
                  /\ f.phase = "settled"
                  /\ Len(f.attempts) = 1
                  /\ f.delays = <<>>
                  /\ f.result = f.attempts[1]

\* C7 witness: a call has settled on a 404 answer to its first attempt
C7_Witness ==
    \E c \in Calls :
        /\ chains[c].fetch.phase = "settled"
        /\ chains[c].fetch.attempts[1].status = 404

\* C8: a settled call surfaces the outcome of its last attempt, the same
\* Response or the same error; an error is surfaced only by the third attempt.
C8_SurfacesLastOutcome ==
    \A c \in Calls :
        LET f == chains[c].fetch
        IN  f.phase = "settled" =>
              /\ f.result = f.attempts[Len(f.attempts)]
              /\ f.result.kind = "error" => Len(f.attempts) = 3

\* C8 witness: a call has settled by throwing the error of its third attempt,
\* after an earlier attempt was answered
C8_Witness ==
    \E c \in Calls :
        /\ chains[c].fetch.phase = "settled"
        /\ chains[c].fetch.result.kind = "error"
        /\ chains[c].fetch.attempts[1].kind = "response"

\* C9: one call makes at most 3 fetch attempts and at most 2 waits, whatever
\* the outcomes of the attempts.
C9_AtMostThreeAttempts ==
    \A c \in Calls :
        /\ Len(chains[c].fetch.attempts) <= 3
        /\ Len(chains[c].fetch.delays) <= 2
        /\ Len(chains[c].fetch.frames) <= 3

\* C9 witness: a call has settled by throwing after a network error, a 503
\* answer and a second network error
C9_Witness ==
    \E c \in Calls :
        LET f == chains[c].fetch
        IN  /\ f.phase = "settled"
            /\ Len(f.attempts) = 3
            /\ f.attempts[1].kind = "error"
            /\ Is503(f.attempts[2])
            /\ f.attempts[3].kind = "error"
            /\ f.result.kind = "error"

\* one message was sent into an empty conversation, every attempt of its
\* /generate-response call threw, and the turn has ended
ScenarioB ==
    /\ Len(chains) = 1
    /\ chains[1].kind = "chat"
    /\ chains[1].stage = "done"
    /\ chains[1].call = "allThrew"

\* C10 as stated: in that final state there are exactly 2 messages, the second
\* an assistant message with the server-error text, and isAnalyzing is false.
C10_ServerErrorText ==
    ScenarioB =>
        /\ Len(messages) = 2
        /\ messages[2].role = "assistant"
        /\ messages[2].content = GENERATE_ERROR
        /\ ~isAnalyzing

\* C10 amended: in that final state there are exactly 2 messages, the second
\* an assistant message, and isAnalyzing is false; its content is the text of
\* the generateResponse service, appended by onSuccess, or, when the call to
\* the app server itself failed after that, the warming-up text.
C10_ServiceFailureText ==
    ScenarioB =>
        /\ Len(messages) = 2
        /\ messages[1].role = "user"
        /\ messages[2].role = "assistant"
        /\ chains[1].handled = "onSuccess" =>
              messages[2].content =
                  "Failed to generate a response. Please try again later."
        /\ chains[1].handled = "onError" =>
              messages[2].content = WARMING_UP
        /\ ~isAnalyzing

\* C10 witness: the turn ended through onSuccess with the service's text
C10_Witness ==
    /\ ScenarioB
    /\ chains[1].handled = "onSuccess"
    /\ messages[2].content = GENERATE_FAILED

----------------------------------------------------------------------------
(* Properties of the controller's handlers and of the procedures *)

\* the terminal message of an ended chain
TerminalMessage(c) == messages[CHOOSE i \in TerminalOf(c) : TRUE]

\* this step is the error handler of chain c's requestGeneration call
GenErrorStep(c) ==
    /\ chains[c].kind = "chat"
    /\ chains[c].stage \in {"rpcPending", "serving", "rpcReplied"}
    /\ chains'[c].handled = "onError"

\* C11 as stated: whenever the error handler of requestGeneration runs, in
\* the first turn as in any other, it appends an assistant message with the
\* server-error text.
C11_AlwaysServerErrorText ==
    [][\A c \in Chains :
          GenErrorStep(c) =>
              /\ Len(messages') = Len(messages) + 1
              /\ messages'[Len(messages')].role = "assistant"
              /\ messages'[Len(messages')].content =
                    "Failed to generate a response due to a server error. Please try again."
      ]_vars

\* C11 amended: the error handler of requestGeneration appends an assistant
\* message with the server-error text once isFirstRequest is false, and with
\* the warming-up text while isFirstRequest is true, as it is in the first
\* turn.
C11_ServerErrorOrWarmingUp ==
    [][\A c \in Chains :
          GenErrorStep(c) =>
              /\ Len(messages') = Len(messages) + 1
              /\ messages'[Len(messages')].role = "assistant"
              /\ messages'[Len(messages')].content =
                    IF isFirstRequest
                    THEN "The backend service is warming up (this may take up to a minute on first use). Please try again shortly."
                    ELSE "Failed to generate a response due to a server error. Please try again."
      ]_vars

\* C11 witness: after a successful first turn the error handler of the second
\* turn's requestGeneration appended the server-error text
C11_Witness ==
    /\ Len(chains) = 2
    /\ ~isFirstRequest
    /\ chains[2].kind = "chat"
    /\ chains[2].rpcs = <<"sendMessage", "generateResponse">>
    /\ chains[2].stage = "done"
    /\ chains[2].handled = "onError"
    /\ TerminalMessage(2).content = GENERATE_ERROR

\* C12 as stated: the assistant message appended for a success=true answer
\* carries the content, the sources and the scores of the backend's answer.
C12_SourcesAndScoresCarried ==
    \A c \in Chains :
        ( /\ chains[c].kind = "chat"
          /\ chains[c].stage = "done"
          /\ chains[c].handled = "onSuccess"
          /\ chains[c].data.success ) =>
            \E b \in Bodies :
                /\ b.success
                /\ TerminalMessage(c).content = b.content
                /\ TerminalMessage(c).sources = b.sources
                /\ TerminalMessage(c).scores = b.scores

\* C13: when requestGeneration returns success=false, the appended assistant
\* message has the content of the response; the generic text is appended only
\* when that content is empty.
C13_FailureContentVerbatim ==
    \A c \in Chains :
        ( /\ chains[c].kind = "chat"
          /\ chains[c].stage = "done"
          /\ chains[c].handled = "onSuccess"
          /\ ~chains[c].data.success ) =>
            /\ chains[c].data.content # "" =>
                  TerminalMessage(c).content = chains[c].data.content
            /\ chains[c].data.content = "" =>
                  TerminalMessage(c).content =
                      "Failed to generate a response. Please try again."
            /\ TerminalMessage(c).role = "assistant"

\* C13 witness: the backend's "No matching documentation found." was appended
C13_Witness ==
    \E c \in Chains :
        /\ chains[c].kind = "chat"
        /\ chains[c].stage = "done"
        /\ chains[c].handled = "onSuccess"
        /\ chains[c].data =
              [content |-> "No matching documentation found.", success |-> FALSE]
        /\ TerminalMessage(c).content = "No matching documentation found."

\* this step is the error handler of chain c's submitMessage call
SendErrorStep(c) ==
    /\ chains[c].stage \in {"sendPending", "sendReplied"}
    /\ chains'[c].handled = "onError"

\* C14: when submitMessage fails, the handler appends one assistant message
\* "Failed to send message. Please try again.", clears isAnalyzing and ends
\* the chain, which has not called requestGeneration.
C14_SendFailure ==
    [][\A c \in Chains :
          SendErrorStep(c) =>
              /\ Len(messages') = Len(messages) + 1
              /\ SubSeq(messages', 1, Len(messages)) = messages
              /\ messages'[Len(messages')].role = "assistant"
              /\ messages'[Len(messages')].content =
                    "Failed to send message. Please try again."
              /\ ~isAnalyzing'
              /\ chains'[c].stage = "done"
              /\ chains'[c].rpcs = <<"sendMessage">>
              /\ \A d \in DOMAIN chains' : chains'[d].stage = "done"
      ]_vars

\* C14 witness: a turn ended by the error handler of submitMessage
C14_Witness ==
    \E c \in Chains :
        /\ chains[c].kind = "chat"
        /\ chains[c].stage = "done"
        /\ chains[c].rpcs = <<"sendMessage">>
        /\ TerminalMessage(c).content = SEND_ERROR
        /\ ~isAnalyzing

\* the expected transcript of msgs[i..n]: one labelled line per message,
\* a blank line between two entries
RECURSIVE Transcript(_, _, _)
Transcript(msgs, i, n) ==
    IF i > n THEN ""
    ELSE (IF msgs[i].role = "user" THEN "User: " ELSE "Assistant: ")
            \o msgs[i].content
            \o (IF i < n THEN "\n\n" \o Transcript(msgs, i + 1, n) ELSE "")

\* C15: getConversationHistory returns the rendering of the last min(10, n)
\* messages in their order, "User: ..." or "Assistant: ..." by role, joined
\* by a blank line; 15 messages give messages 6..15, none gives "".
C15_LastTenRendered ==
    applied.fn = "getConversationHistory" =>
        LET n == Len(applied.arg)
            first == IF n > 10 THEN n - 9 ELSE 1
        IN  /\ applied.ret = Transcript(applied.arg, first, n)
            /\ n = 15 => applied.ret = Transcript(applied.arg, 6, 15)
            /\ n = 0 => applied.ret = ""

\* C15 witness: getConversationHistory applied to 15 messages of both roles
C15_Witness ==
    /\ applied.fn = "getConversationHistory"
    /\ Len(applied.arg) = 15
    /\ applied.arg[1].role = "user"
    /\ applied.arg[6].role = "assistant"
    /\ applied.arg[15].role = "user"
    /\ applied.ret # ""

\* the messages appended before turn c began
MessagesBefore(c) ==
    SelectSeq(messages, LAMBDA m : m.chain < c)

\* C16 as stated: the history passed to requestGeneration in a turn is
\* assembled over the messages that existed before the turn, without the user
\* message the turn's handleSendMessage appended.
C16_HistoryOfPriorMessages ==
    \A c \in Chains :
        ( /\ chains[c].kind = "chat"
          /\ Len(chains[c].rpcs) = 2 ) =>
            chains[c].history = getConversationHistory(MessagesBefore(c))

\* C17: analyzePR on a text that is not a well-formed URL returns
\* success=false with the invalid-URL content built from the input and makes
\* no call to the backend.
C17_InvalidURLShortCircuits ==
    \A c \in Chains :
        ( /\ chains[c].kind = "pr"
          /\ chains[c].input = "not a url" ) =>
            /\ chains[c].stage # "serving"
            /\ chains[c].fetch = IdleFetch
            /\ chains[c].call = NoCall
            /\ chains[c].stage = "rpcReplied" =>
                  chains[c].data =
                      [content |-> "Invalid GitHub URL: \"not a url\". Please provide a valid GitHub pull request URL.",
                       success |-> FALSE]

\* C17 witness: analyzePR has answered a submission of "not a url"
C17_Witness ==
    \E c \in Chains :
        /\ chains[c].kind = "pr"
        /\ chains[c].input = "not a url"
        /\ chains[c].stage = "rpcReplied"
        /\ ~chains[c].data.success

\* C18 as stated: sendMessage called with content "" fails validation and
\* returns no record.
C18_EmptyContentRejected ==
    ( /\ applied.fn = "sendMessage"
      /\ applied.arg.content = "" ) => ~applied.ret.ok

\* C19: every step leaves messages unchanged or appends one message at the
\* end; no step removes, reorders or rewrites a message of the list.
C19_AppendOnly ==
    [][ \/ messages' = messages
        \/ /\ Len(messages') = Len(messages) + 1
           /\ SubSeq(messages', 1, Len(messages)) = messages
      ]_vars

\* C19 witness: four messages, the third the placeholder of a PR submission
\* made after a finished chat turn
C19_Witness ==
    /\ Len(messages) = 4
    /\ messages[1].role = "user"
    /\ messages[3].prMetadata # NoMetadata
    /\ \A c \in Chains : chains[c].stage = "done"

\* the positions of chain c's messages
PositionsOf(c) == { i \in DOMAIN messages : messages[i].chain = c }

\* C20: a PR submission appends the placeholder "Analyzing PR: <url>", sets
\* isAnalyzing and calls only analyzePR; the chain ends with one terminal
\* append right after the placeholder, which stays, and isAnalyzing cleared.
C20_PRSingleStep ==
    \A c \in Chains :
        chains[c].kind = "pr" =>
            LET first == CHOOSE i \in PositionsOf(c) :
                             \A j \in PositionsOf(c) : i <= j
            IN  /\ PositionsOf(c) # {}
                /\ chains[c].rpcs = <<"analyzePR">>
                /\ chains[c].history = ""
                /\ chains[c].stage \notin {"sendPending", "sendReplied"}
                /\ messages[first].role = "assistant"
                /\ messages[first].content = "Analyzing PR: " \o chains[c].input
                /\ messages[first].prMetadata = chains[c].input
                /\ chains[c].stage # "done" =>
                      /\ PositionsOf(c) = {first}
                      /\ isAnalyzing
                /\ chains[c].stage = "done" =>
                      /\ PositionsOf(c) = {first, first + 1}
                      /\ messages[first + 1].role = "assistant"
                      /\ messages[first + 1].prMetadata = NoMetadata
                      /\ chains[c].handled \in {"onSuccess", "onError"}
                      /\ c = Len(chains) => ~isAnalyzing

\* C20 witness: a PR submission made after a chat turn has ended with the
\* analysis appended after its placeholder
C20_Witness ==
    /\ Len(chains) = 2
    /\ chains[1].kind = "chat"
    /\ chains[2].kind = "pr"
    /\ chains[2].stage = "done"
    /\ chains[2].handled = "onSuccess"
    /\ chains[2].data.success
    /\ Len(messages) = 4
    /\ messages[3].content = "Analyzing PR: " \o chains[2].input
    /\ ~isAnalyzing

\* C21: whenever isAnalyzing is false, each user message is immediately
\* followed by the assistant message of its own turn; "hello" sent into an
\* empty conversation and answered {content: "Hi there!", success: true} ends
\* with exactly user "hello", assistant "Hi there!" and isAnalyzing false.
C21_UserThenOwnAssistant ==
    /\ ~isAnalyzing =>
          \A i \in DOMAIN messages :
              messages[i].role = "user" =>
                  /\ i < Len(messages)
                  /\ messages[i + 1].role = "assistant"
                  /\ messages[i + 1].chain = messages[i].chain
    /\ ( /\ Len(chains) = 1
         /\ chains[1].kind = "chat"
         /\ chains[1].input = "hello"
         /\ chains[1].stage = "done"
         /\ chains[1].handled = "onSuccess"
         /\ chains[1].data = [content |-> "Hi there!", success |-> TRUE] ) =>
            /\ Len(messages) = 2
            /\ messages[1].role = "user"
            /\ messages[1].content = "hello"
            /\ messages[2].role = "assistant"
            /\ messages[2].content = "Hi there!"
            /\ ~isAnalyzing

\* C21 witness: two chat turns ended, the first with the backend's "Hi there!"
C21_Witness ==
    /\ Len(chains) = 2
    /\ chains[1].kind = "chat"
    /\ chains[2].kind = "chat"
    /\ chains[1].handled = "onSuccess"
    /\ chains[1].data = [content |-> "Hi there!", success |-> TRUE]
    /\ chains[2].stage = "done"
    /\ ~isAnalyzing
    /\ Len(messages) = 4
    /\ messages[2].content = "Hi there!"
    /\ messages[3].role = "user"

RECURSIVE Sum(_)
Sum(seq) == IF seq = <<>> THEN 0 ELSE Head(seq) + Sum(Tail(seq))

\* C23: the wait before a retry depends only on the number of attempts made,
\* 8000 ms before the second and 12000 ms before the third, after a network
\* error as after a 500/503/504; the waits of one call add up to 0, 8000 or
\* 20000 ms.
C23_DelayByAttemptCount ==
    \A c \in Chains :
        LET f == chains[c].fetch
        IN  f.phase # "idle" =>
              /\ Len(f.delays) =
                    IF f.phase = "settled" THEN Len(f.attempts) - 1
                    ELSE Len(f.attempts)
              /\ \A i \in DOMAIN f.delays :
                    /\ i = 1 => f.delays[i] = 8000
                    /\ i = 2 => f.delays[i] = 12000
                    /\ i <= 2
              /\ Sum(f.delays) \in {0, 8000, 20000}

\* C23 witness: a call whose first attempt threw and whose second was
\* answered 500 has waited 8000 and 12000 ms
C23_Witness ==
    \E c \in Chains :
        LET f == chains[c].fetch
        IN  /\ f.phase = "settled"
            /\ Len(f.attempts) = 3
            /\ f.attempts[1].kind = "error"
            /\ f.attempts[2].kind = "response"
            /\ f.attempts[2].status = 500
            /\ f.delays = <<8000, 12000>>

\* C24: once an attempt of fetchWithRetry gets a 2xx response, that response
\* is returned and no attempt or wait follows; a retryable failure followed
\* by a success makes 2 attempts and waits 8000 ms.
C24_SuccessEndsCall ==
    \A c \in Chains :
        LET f == chains[c].fetch
        IN  \A i \in DOMAIN f.attempts :
                Ok(f.attempts[i]) =>
                    /\ i = Len(f.attempts)
                    /\ f.phase = "settled"
                    /\ f.result = f.attempts[i]
                    /\ Len(f.delays) = i - 1
                    /\ i = 2 => Sum(f.delays) = 8000

\* C24 witness: a 503 then a 200
C24_Witness ==
    \E c \in Chains :
        LET f == chains[c].fetch
        IN  /\ f.phase = "settled"
            /\ Len(f.attempts) = 2
            /\ f.attempts[1].status = 503
            /\ Ok(f.attempts[2])
            /\ f.result = f.attempts[2]
            /\ f.delays = <<8000>>

\* C25: in one chat turn generateResponse is invoked at most once, only
\* after the turn's sendMessage has succeeded, and with previousContent equal
\* to the content sendMessage returned, which is the text the user submitted.
C25_GenerateOnceAfterSend ==
    [][\A c \in Chains :
          /\ chains'[c].rpcs # chains[c].rpcs =>
                /\ chains[c].stage = "sendReplied"
                /\ chains[c].data.success
                /\ chains[c].data.content = chains[c].input
                /\ chains[c].rpcs = <<"sendMessage">>
                /\ chains'[c].rpcs = <<"sendMessage", "generateResponse">>
                /\ chains'[c].data = chains[c].data
          /\ ( /\ chains[c].kind = "chat"
               /\ chains[c].stage = "rpcPending"
               /\ chains'[c].stage = "serving" ) =>
                /\ chains'[c].fetch.request.content = chains[c].data.content
                /\ chains'[c].fetch.request.content = chains[c].input
      ]_vars

\* C25 witness: the generateResponse procedure of a second chat turn runs on
\* the text of that turn
C25_Witness ==
    /\ Len(chains) = 2
    /\ chains[1].rpcs = <<"sendMessage", "generateResponse">>
    /\ chains[2].kind = "chat"
    /\ chains[2].stage = "serving"
    /\ chains[2].rpcs = <<"sendMessage", "generateResponse">>
    /\ chains[2].fetch.request.content = chains[2].input

\* C26: the service functions generateResponse and analyzePR never throw:
\* on a 2xx response they return the backend's JSON body unchanged, on a
\* non-2xx response or a thrown network error they return success=false with
\* their fixed "... Please try again later." content, so the procedure
\* returns a success=false result instead of failing.
C26_ServicesNeverThrow ==
    ( /\ applied.fn \in {"generateResponse", "analyzePR"}
      /\ Len(applied.sent) = applied.calls ) =>
        LET out   == applied.backend
            fixed == IF applied.fn = "generateResponse"
                     THEN "Failed to generate a response. Please try again later."
                     ELSE "Failed to analyze the PR. Please try again later."
            failed == /\ applied.service.content = fixed
                      /\ ~applied.service.success
        IN  /\ (Ok(out) /\ out.body \in Bodies) => applied.service = out.body
            /\ ~Ok(out) => failed
            /\ (Ok(out) /\ out.body \notin Bodies) => failed
            /\ applied.ret = [content |-> applied.service.content,
                              success |-> applied.service.success]

\* C26 witness: analyzePR after a fetchWithRetry call that threw
C26_Witness ==
    /\ applied.fn = "analyzePR"
    /\ Len(applied.sent) = 1
    /\ applied.backend.kind = "error"
    /\ applied.ret = [content |-> ANALYZE_FAILED, success |-> FALSE]

RemoteErrorStep(c) ==
    /\ chains[c].stage \in {"rpcPending", "serving", "rpcReplied"}
    /\ chains'[c].handled = "onError"

\* C28: isFirstRequest is true initially, becomes false only when a
\* generation or PR-analysis response with success=true is handled and never
\* becomes true again; while it is true, a thrown error of generateResponse or
\* analyzePR appends the "backend service is warming up" message.
C28_FirstRequestFlag ==
    /\ isFirstRequest = TRUE
    /\ [][ /\ isFirstRequest' # isFirstRequest =>
                /\ isFirstRequest
                /\ ~isFirstRequest'
                /\ \E c \in Chains :
                      /\ chains[c].stage = "rpcReplied"
                      /\ chains[c].data.success
                      /\ chains'[c].stage = "done"
                      /\ chains'[c].handled = "onSuccess"
           /\ \A c \in Chains :
                (RemoteErrorStep(c) /\ isFirstRequest) =>
                    /\ Len(messages') = Len(messages) + 1
                    /\ messages'[Len(messages')].role = "assistant"
                    /\ messages'[Len(messages')].content =
                          "The backend service is warming up (this may take up to a minute on first use). Please try again shortly."
                    /\ isFirstRequest'
      ]_vars

\* C28 witness: a PR analysis failed with the warming-up message, then a chat
\* turn was answered with success=true and cleared the flag
C28_Witness ==
    /\ Len(chains) = 2
    /\ chains[1].kind = "pr"
    /\ chains[1].handled = "onError"
    /\ TerminalMessage(1).content = WARMING_UP
    /\ chains[2].kind = "chat"
    /\ chains[2].handled = "onSuccess"
    /\ chains[2].data.success
    /\ ~isFirstRequest

\* C29: sendMessage returns role 'user' for every accepted input, also one
\* whose role is 'assistant', returns the content of the input unchanged with
\* a newly generated messageId, and makes no call to the backend.
C29_SendMessageEchoes ==
    ( /\ applied.fn = "sendMessage"
      /\ applied.arg.role \in {"user", "assistant"} ) =>
        /\ applied.ret.ok
        /\ applied.ret.role = "user"
        /\ applied.ret.content = applied.arg.content
        /\ Len(applied.ids) = applied.calls
        /\ applied.ret.messageId = applied.ids[applied.calls]
        /\ \A i, j \in DOMAIN applied.ids :
              i # j => applied.ids[i] # applied.ids[j]
        /\ applied.sent = <<>>
        /\ applied.backend = NoOutcome

\* C29 witness: sendMessage called twice with role 'assistant'
C29_Witness ==
    /\ applied.fn = "sendMessage"
    /\ applied.arg = [content |-> "hello", role |-> "assistant"]
    /\ applied.calls = 2
    /\ applied.ret.role = "user"

\* C30: generateResponse sends the backend a body whose content is the
\* input's previousContent and whose previous_content is the input's
\* conversationHistory, absent when none was given; messageId is not sent.
C30_GenerateRequestBody ==
    applied.fn = "generateResponse" =>
        /\ Len(applied.sent) = applied.calls
        /\ \A i \in DOMAIN applied.sent :
              /\ applied.sent[i].content = applied.arg.previousContent
              /\ applied.sent[i].previous_content =
                    applied.arg.conversationHistory
              /\ applied.arg.conversationHistory = "undefined" =>
                    applied.sent[i].previous_content = "undefined"
              /\ applied.sent[i].pr_url = "undefined"
              /\ "messageId" \notin DOMAIN applied.sent[i]

\* C30 witness: generateResponse called with a history of two messages
C30_Witness ==
    /\ applied.fn = "generateResponse"
    /\ applied.calls = 1
    /\ applied.arg.conversationHistory = "User: hi\n\nAssistant: Hi there!"
    /\ applied.sent =
          <<[content |-> "hello", pr_url |-> Absent,
             previous_content |-> "User: hi\n\nAssistant: Hi there!"]>>

\* C31: the chat input starts a turn only for non-empty text: submitting a
\* text that is empty or only white space is no step of the controller (no
\* handleSendMessage, messages and isAnalyzing as they were), and the content
\* of every user message is the trimmed, non-empty text of a submission.
C31_OnlyNonEmptyTrimmedText ==
    /\ \A raw \in RawInputs :
          (\A i \in DOMAIN raw : raw[i] \in {" ", "\t", "\n"}) =>
              ~ENABLED handleSubmit(raw)
    /\ \A i \in DOMAIN messages :
          messages[i].role = "user" =>
              /\ messages[i].content # ""
              /\ messages[i].content = "hello"
              /\ chains[messages[i].chain].input = messages[i].content

\* C31 witness: after a finished turn the input is enabled again, a text
\* padded with white space would start a turn, and the user message of the
\* first turn holds the trimmed text
C31_Witness ==
    /\ Len(messages) = 2
    /\ ~isAnalyzing
    /\ messages[1].role = "user"
    /\ messages[1].content = "hello"
    /\ ENABLED handleSubmit(<<" ", " ", "h", "e", "l", "l", "o", " ">>)
    /\ ENABLED handleSubmit(<<"h", "e", "l", "l", "o">>)

====
